---- MODULE Spec2Model ----
(***************************************************************************)
(* A model of the 3-layer feed-forward / back-propagation network of       *)
(* src/3lnn.c together with the driver loops of src/main.c.                *)
(*                                                                         *)
(* The network lives in one malloc'ed arena.  The arena is modelled as a   *)
(* memory `mem' of 8-byte words, addressed by the byte offset from         *)
(* nn->layers; every field of struct Layer and struct Node occupies one    *)
(* such word (an int field shares its word with the padding that follows). *)
(* Layers and nodes are found by the same offset arithmetic as in the C    *)
(* code, in bytes.                                                         *)
(*                                                                         *)
(* A double is modelled as a fixed-point number: the integer v stands for  *)
(* v / Scale, and every product is rounded to the grid, as every floating  *)
(* point product is rounded to the nearest double.                         *)
(***************************************************************************)
EXTENDS Integers, Sequences, FiniteSets, TLC

(***************************************************************************)
(* Bounds of the model.                                                    *)
(***************************************************************************)
MaxNodes == 5

MaxOps == 2

MaxExtra == 2

\* main(): the nodes of the network it creates, and the images of the
\* training set and the testing set together
MaxMainNodes == 5

MaxImages == 3

(***************************************************************************)
(* Number model.                                                           *)
(***************************************************************************)
Scale == 100

RandMax == 15

ActFctTypes == {"SIGMOID", "TANH"}

LayerTypes == {"INPUT", "HIDDEN", "OUTPUT"}

Abs(x) == IF x < 0 THEN -x ELSE x

\* product of two doubles, rounded to the grid
Mul(a, b) == ((a * b) + (Scale \div 2)) \div Scale

\* quotient of two doubles (b > 0), rounded to the grid
Div(a, b) == ((a * Scale) + (b \div 2)) \div b

\* 100 * 1/(1+exp(-x)) at x = 0, 0.5, 1.0, ... 6.5
SigmoidTable == <<50, 62, 73, 82, 88, 92, 95, 97, 98, 99, 99, 100, 100, 100>>

\* 1 / (1 + exp(-x)): the table above, interpolated linearly, saturating at
\* 0 and at 1 as the double does for large arguments
Sigmoid(x) ==
    LET ax  == Abs(x)
        k   == ax \div 50
        pos == IF ax >= 600 THEN Scale
               ELSE SigmoidTable[k + 1]
                    + (((SigmoidTable[k + 2] - SigmoidTable[k + 1]) * (ax % 50)) \div 50)
    IN  IF x >= 0 THEN pos ELSE Scale - pos

\* tanh(x) = 2 / (1 + exp(-2x)) - 1
Tanh(x) == (2 * Sigmoid(2 * x)) - Scale

(***************************************************************************)
(* Layout of the structs (src/util/mnist-stats.h), in bytes.               *)
(***************************************************************************)
SizeofDouble == 8

SizeofNode == 24

SizeofLayer == 8

SizeofNetwork == 40

OffBias == 0

OffOutput == 8

OffWcount == 16

OffWeights == 24

OffNcount == 0

OffNodes == 8

\* the word addresses of a block of n bytes starting at byte offset a
Words(a, n) == {x \in a..(a + n - 1) : x % SizeofDouble = 0}

\* memcpy(dst, src, n), src being a block image addressed from 0
Memcpy(m, dst, src, n) ==
    [a \in DOMAIN m |-> IF a >= dst /\ a < dst + n THEN src[a - dst] ELSE m[a]]

(***************************************************************************)
(* The state.                                                              *)
(***************************************************************************)
VARIABLES
    nn,             \* the fields of struct Network before layers[]
    arenaSize,      \* the number of bytes malloc'ed for the network
    mem,            \* the words of nn->layers
    pc,             \* the position of the running call, <<"idle">> when none
    label,          \* targetClassification of the running backPropagateNetwork
    error,          \* the error argument of the last updateNodeWeights call
    wread,          \* on->weights[h], per o, read by the last hidden-node step
    bpmem,          \* mem on entry of the last backPropagateNetwork
    vec,            \* the vector of the last feedInput
    classification, \* the result of the last getNetworkClassification
    trace,          \* the calls entered and the node steps taken, in order
                    \* (in main(): those made for the current image)
    call,           \* the name of the last call entered
    args,           \* the arguments createNetwork was called with
    ops,            \* the number of calls made so far
    ffmem,          \* mem on entry of the last feedForwardNetwork
    nnptr,          \* what malloc returned to createNetwork
    fn,             \* the function of main.c that is running
    at,             \* the statement of that function that is next
    images,         \* MNIST_MAX_TRAINING_IMAGES and MNIST_MAX_TESTING_IMAGES
    imgCount,       \* imgCount of the running trainNetwork / testNetwork
    errCount,       \* errCount of the running trainNetwork / testNetwork
    lbl,            \* the label read for the current image
    trained         \* mem when trainNetwork returned

vars == <<nn, arenaSize, mem, pc, label, error, wread, bpmem, vec,
          classification, trace, call, args, ops, ffmem, nnptr, fn, at,
          images, imgCount, errCount, lbl, trained>>

\* the state of main(), trainNetwork and testNetwork
mainvars == <<nnptr, fn, at, images, imgCount, errCount, lbl, trained>>

(***************************************************************************)
(* Addressing (getLayer, getNode) and field access.                        *)
(***************************************************************************)
getLayer(n, ltype) ==
    CASE ltype = "INPUT"  -> 0
      [] ltype = "HIDDEN" -> n.inpLayerSize
      [] OTHER            -> n.inpLayerSize + n.hidLayerSize

\* getNode with the stride of a node without weights
getNode_fixed(m, l, nodeId) ==
    LET nodeSize == SizeofNode
    IN  l + OffNodes + (nodeId * nodeSize)

getNode(m, l, nodeId) ==
    LET nodeSize == SizeofNode + (m[l + OffNodes + OffWcount] * SizeofDouble)
    IN  l + OffNodes + (nodeId * nodeSize)

ncount(m, l) == m[l + OffNcount]

WeightAddr(node, i) == node + OffWeights + (i * SizeofDouble)

(***************************************************************************)
(* Construction (createInputLayer, createLayer, initNetwork,               *)
(* setNetworkDefaults, initWeights, createNetwork).                        *)
(***************************************************************************)
\* the block createInputLayer builds: ncount, then inpCount copies of the
\* default input node (bias 0, output 0, wcount 0)
createInputLayer(inpCount) ==
    LET inpNodeSize  == SizeofNode
        inpLayerSize == SizeofLayer + (inpCount * inpNodeSize)
    IN  [a \in Words(0, inpLayerSize) |->
            IF a = OffNcount THEN inpCount
            ELSE 0]

\* the block createLayer builds: ncount, then nodeCount copies of the
\* default node (bias 0, output 0, wcount weightCount, weights 0)
createLayer(nodeCount, weightCount) ==
    LET nodeSize == SizeofNode + (weightCount * SizeofDouble)
    IN  [a \in Words(0, SizeofLayer + (nodeCount * nodeSize)) |->
            IF a = OffNcount THEN nodeCount
            ELSE IF (a - OffNodes) % nodeSize = OffWcount THEN weightCount
            ELSE 0]

initNetwork(n, m, inpCount, hidCount, outCount) ==
    LET m1 == Memcpy(m, 0, createInputLayer(inpCount), n.inpLayerSize)
        m2 == Memcpy(m1, n.inpLayerSize, createLayer(hidCount, inpCount), n.hidLayerSize)
    IN  Memcpy(m2, n.inpLayerSize + n.hidLayerSize,
               createLayer(outCount, hidCount), n.outLayerSize)

setNetworkDefaults(n) ==
    [n EXCEPT !.hidLayerActType = "SIGMOID",
              !.outLayerActType = "SIGMOID",
              !.learningRate = (2 * Scale) \div 10]

\* rand(): a linear congruential generator over 0..RandMax.  The program
\* never calls srand, so the sequence is the one of srand(1).
RandSeed == 1

rand(r) == ((13 * r) + 15) % (RandMax + 1)

\* the inner loop of initWeights over the weights i.. of one node
RECURSIVE initNodeWeights(_, _, _, _)
initNodeWeights(m, node, i, r) ==
    IF i >= m[node + OffWcount] THEN [mem |-> m, rand |-> r]
    ELSE LET r1 == rand(r)
             w  == Mul((7 * Scale) \div 10, Div(r1, RandMax))
             w1 == IF i % 2 = 1 THEN -w ELSE w
         IN  initNodeWeights([m EXCEPT ![WeightAddr(node, i)] = w1], node, i + 1, r1)

\* the outer loop of initWeights over the nodes o.. of the layer
RECURSIVE initWeightsLoop(_, _, _, _, _, _)
initWeightsLoop(m, l, sbptr, nodeSize, o, r) ==
    IF o >= ncount(m, l) THEN [mem |-> m, rand |-> r]
    ELSE LET s1 == initNodeWeights(m, sbptr, 0, r)
             r2 == rand(s1.rand)
             b  == Div(r2, RandMax)
             b1 == IF o % 2 = 1 THEN -b ELSE b
         IN  initWeightsLoop([s1.mem EXCEPT ![sbptr + OffBias] = b1],
                             l, sbptr + nodeSize, nodeSize, o + 1, r2)

initWeights(n, m, ltype, r) ==
    LET nodeSize == IF ltype = "HIDDEN" THEN n.hidNodeSize ELSE n.outNodeSize
        l        == getLayer(n, ltype)
    IN  initWeightsLoop(m, l, l + OffNodes, nodeSize, 0, r)

createNetwork(inpCount, hidCount, outCount, seed) ==
    LET inpNodeSize     == SizeofNode
        inpLayerSize    == SizeofLayer + (inpCount * inpNodeSize)
        hidWeightsCount == inpCount
        hidNodeSize     == SizeofNode + (hidWeightsCount * SizeofDouble)
        hidLayerSize    == SizeofLayer + (hidCount * hidNodeSize)
        outWeightsCount == hidCount
        outNodeSize     == SizeofNode + (outWeightsCount * SizeofDouble)
        outLayerSize    == SizeofLayer + (outCount * outNodeSize)
        size            == SizeofNetwork + inpLayerSize + hidLayerSize + outLayerSize
        n0 == [inpNodeSize |-> inpNodeSize, inpLayerSize |-> inpLayerSize,
               hidNodeSize |-> hidNodeSize, hidLayerSize |-> hidLayerSize,
               outNodeSize |-> outNodeSize, outLayerSize |-> outLayerSize,
               learningRate |-> 0, hidLayerActType |-> "SIGMOID",
               outLayerActType |-> "SIGMOID"]
        m0 == [a \in Words(0, size - SizeofNetwork) |-> 0]
        m1 == initNetwork(n0, m0, inpCount, hidCount, outCount)
        n1 == setNetworkDefaults(n0)
        s2 == initWeights(n1, m1, "HIDDEN", seed)
        s3 == initWeights(n1, s2.mem, "OUTPUT", s2.rand)
    IN  [nn |-> n1, arenaSize |-> size, mem |-> s3.mem]

(***************************************************************************)
(* Forward pass (feedInput, calcNodeOutput, activateNode).                 *)
(***************************************************************************)
\* feedInputLoop stepping iln by sizeof(double) instead of sizeof(Node)
RECURSIVE feedInputLoop_stride(_, _, _, _)
feedInputLoop_stride(m, v, iln, i) ==
    IF i >= Len(v) THEN m
    ELSE LET m1 == IF (iln + OffOutput) \in DOMAIN m
                   THEN [m EXCEPT ![iln + OffOutput] = v[i + 1]]
                   ELSE m
         IN  feedInputLoop_stride(m1, v, iln + SizeofDouble, i + 1)

\* feedInputLoop leaving out the last value of the vector
RECURSIVE feedInputLoop_short(_, _, _, _)
feedInputLoop_short(m, v, iln, i) ==
    IF i + 1 >= Len(v) THEN m
    ELSE LET m1 == IF (iln + OffOutput) \in DOMAIN m
                   THEN [m EXCEPT ![iln + OffOutput] = v[i + 1]]
                   ELSE m
         IN  feedInputLoop_short(m1, v, iln + SizeofNode, i + 1)

\* the loop of feedInput from index i on; v is a sequence, v[i+1] is vals[i].
\* mem holds the words of the arena only: a store beyond its end lands in
\* memory that is not the network's and leaves mem as it is (no vector
\* within the bounds of this model is long enough to get there).
RECURSIVE feedInputLoop(_, _, _, _)
feedInputLoop(m, v, iln, i) ==
    IF i >= Len(v) THEN m
    ELSE LET m1 == IF (iln + OffOutput) \in DOMAIN m
                   THEN [m EXCEPT ![iln + OffOutput] = v[i + 1]]
                   ELSE m
         IN  feedInputLoop(m1, v, iln + SizeofNode, i + 1)

feedInput(m, v) == feedInputLoop(m, v, 0 + OffNodes, 0)

\* the accumulation loop of calcNodeOutput from index i on
RECURSIVE calcNodeOutputLoop(_, _, _, _, _, _)
calcNodeOutputLoop(m, calcNode, sbptr, prevLayerNodeSize, cnt, i) ==
    IF i >= cnt THEN m
    ELSE LET out == m[calcNode + OffOutput]
                    + Mul(m[sbptr + OffOutput], m[WeightAddr(calcNode, i)])
         IN  calcNodeOutputLoop([m EXCEPT ![calcNode + OffOutput] = out],
                                calcNode, sbptr + prevLayerNodeSize,
                                prevLayerNodeSize, cnt, i + 1)

\* calcNodeOutput adding the bias to the output the node holds instead of
\* starting from the bias
calcNodeOutput_stale(n, m, ltype, id) ==
    LET calcLayer == getLayer(n, ltype)
        calcNode  == getNode(m, calcLayer, id)
        prevLayer == IF ltype = "HIDDEN" THEN getLayer(n, "INPUT")
                     ELSE getLayer(n, "HIDDEN")
        prevLayerNodeSize == IF ltype = "HIDDEN" THEN n.inpNodeSize
                             ELSE n.hidNodeSize
        m1 == [m EXCEPT ![calcNode + OffOutput] =
                  m[calcNode + OffOutput] + m[calcNode + OffBias]]
    IN  calcNodeOutputLoop(m1, calcNode, prevLayer + OffNodes,
                           prevLayerNodeSize, ncount(m, prevLayer), 0)

calcNodeOutput(n, m, ltype, id) ==
    LET calcLayer == getLayer(n, ltype)
        calcNode  == getNode(m, calcLayer, id)
        prevLayer == IF ltype = "HIDDEN" THEN getLayer(n, "INPUT")
                     ELSE getLayer(n, "HIDDEN")
        prevLayerNodeSize == IF ltype = "HIDDEN" THEN n.inpNodeSize
                             ELSE n.hidNodeSize
        m1 == [m EXCEPT ![calcNode + OffOutput] = m[calcNode + OffBias]]
    IN  calcNodeOutputLoop(m1, calcNode, prevLayer + OffNodes,
                           prevLayerNodeSize, ncount(m, prevLayer), 0)

\* activateNode storing the activated value in the node's bias
activateNode_bias(n, m, ltype, id) ==
    LET l      == getLayer(n, ltype)
        node   == getNode(m, l, id)
        actFct == IF ltype = "HIDDEN" THEN n.hidLayerActType
                  ELSE n.outLayerActType
    IN  [m EXCEPT ![node + OffBias] =
            IF actFct = "TANH" THEN Tanh(m[node + OffOutput])
            ELSE Sigmoid(m[node + OffOutput])]

activateNode(n, m, ltype, id) ==
    LET l      == getLayer(n, ltype)
        node   == getNode(m, l, id)
        actFct == IF ltype = "HIDDEN" THEN n.hidLayerActType
                  ELSE n.outLayerActType
    IN  [m EXCEPT ![node + OffOutput] =
            IF actFct = "TANH" THEN Tanh(m[node + OffOutput])
            ELSE Sigmoid(m[node + OffOutput])]

\* calcLayer with a loop that stops one node before the end of the layer
RECURSIVE calcLayer_short(_, _, _, _)
calcLayer_short(n, m, ltype, i) ==
    IF i >= ncount(m, getLayer(n, ltype)) - 1 THEN m
    ELSE calcLayer_short(n, activateNode(n, calcNodeOutput(n, m, ltype, i), ltype, i),
                         ltype, i + 1)

\* the loop of calcLayer(nn, ltype) from index i on
RECURSIVE calcLayer(_, _, _, _)
calcLayer(n, m, ltype, i) ==
    IF i >= ncount(m, getLayer(n, ltype)) THEN m
    ELSE calcLayer(n, activateNode(n, calcNodeOutput(n, m, ltype, i), ltype, i),
                   ltype, i + 1)

\* the memory feedForwardNetwork(nn) leaves when it is entered with memory m
feedForwardNetwork(n, m) == calcLayer(n, calcLayer(n, m, "HIDDEN", 0), "OUTPUT", 0)

(***************************************************************************)
(* Backward pass (getActFctDerivative, updateNodeWeights and the bodies    *)
(* of the loops of backPropagateOutputLayer / backPropagateHiddenLayer).   *)
(***************************************************************************)
getActFctDerivative(n, ltype, outVal) ==
    LET actFct == IF ltype = "HIDDEN" THEN n.hidLayerActType
                  ELSE n.outLayerActType
    IN  IF actFct = "TANH" THEN Scale - Mul(Tanh(outVal), Tanh(outVal))
        ELSE Mul(outVal, Scale - outVal)

\* updateNodeWeightsLoop never advancing sbptr: every weight is updated with
\* the output of the first node of the previous layer
RECURSIVE updateNodeWeightsLoop_nostep(_, _, _, _, _, _, _)
updateNodeWeightsLoop_nostep(m, updateNode, sbptr, prevLayerNodeSize, lr, err, i) ==
    IF i >= m[updateNode + OffWcount] THEN m
    ELSE LET w == m[WeightAddr(updateNode, i)]
                  + Mul(Mul(lr, m[sbptr + OffOutput]), err)
         IN  updateNodeWeightsLoop_nostep([m EXCEPT ![WeightAddr(updateNode, i)] = w],
                                          updateNode, sbptr,
                                          prevLayerNodeSize, lr, err, i + 1)

\* the loop of updateNodeWeights over the connections i..
RECURSIVE updateNodeWeightsLoop(_, _, _, _, _, _, _)
updateNodeWeightsLoop(m, updateNode, sbptr, prevLayerNodeSize, lr, err, i) ==
    IF i >= m[updateNode + OffWcount] THEN m
    ELSE LET w == m[WeightAddr(updateNode, i)]
                  + Mul(Mul(lr, m[sbptr + OffOutput]), err)
         IN  updateNodeWeightsLoop([m EXCEPT ![WeightAddr(updateNode, i)] = w],
                                   updateNode, sbptr + prevLayerNodeSize,
                                   prevLayerNodeSize, lr, err, i + 1)

\* updateNodeWeights adding the bias step to the node's output
updateNodeWeights_output(n, m, ltype, id, err) ==
    LET updateLayer == getLayer(n, ltype)
        updateNode  == getNode(m, updateLayer, id)
        prevLayer   == IF ltype = "HIDDEN" THEN getLayer(n, "INPUT")
                       ELSE getLayer(n, "HIDDEN")
        prevLayerNodeSize == IF ltype = "HIDDEN" THEN n.inpNodeSize
                             ELSE n.hidNodeSize
        m1 == updateNodeWeightsLoop(m, updateNode, prevLayer + OffNodes,
                                    prevLayerNodeSize, n.learningRate, err, 0)
    IN  [m1 EXCEPT ![updateNode + OffOutput] =
            m1[updateNode + OffOutput] + Mul(Mul(n.learningRate, 1 * Scale), err)]

updateNodeWeights(n, m, ltype, id, err) ==
    LET updateLayer == getLayer(n, ltype)
        updateNode  == getNode(m, updateLayer, id)
        prevLayer   == IF ltype = "HIDDEN" THEN getLayer(n, "INPUT")
                       ELSE getLayer(n, "HIDDEN")
        prevLayerNodeSize == IF ltype = "HIDDEN" THEN n.inpNodeSize
                             ELSE n.hidNodeSize
        m1 == updateNodeWeightsLoop(m, updateNode, prevLayer + OffNodes,
                                    prevLayerNodeSize, n.learningRate, err, 0)
    IN  [m1 EXCEPT ![updateNode + OffBias] =
            m1[updateNode + OffBias] + Mul(Mul(n.learningRate, 1 * Scale), err)]

\* errorSignal of output node o, as both backPropagate loops compute it
outputErrorSignal(n, m, o, targetClassification) ==
    LET on           == getNode(m, getLayer(n, "OUTPUT"), o)
        targetOutput == IF o = targetClassification THEN 1 ELSE 0
        errorDelta   == (targetOutput * Scale) - m[on + OffOutput]
    IN  Mul(errorDelta, getActFctDerivative(n, "OUTPUT", m[on + OffOutput]))

\* the inner loop of backPropagateHiddenLayer over the output nodes o..;
\* yields outputcellerrorsum and the values on->weights[h] it has read
RECURSIVE outputcellerrorsum(_, _, _, _, _, _)
outputcellerrorsum(n, m, h, targetClassification, o, acc) ==
    LET ol == getLayer(n, "OUTPUT")
    IN  IF o >= ncount(m, ol) THEN acc
        ELSE LET on  == getNode(m, ol, o)
                 w   == m[WeightAddr(on, h)]
                 sig == outputErrorSignal(n, m, o, targetClassification)
             IN  outputcellerrorsum(n, m, h, targetClassification, o + 1,
                     [sum |-> acc.sum + Mul(sig, w), reads |-> Append(acc.reads, w)])

\* hiddenErrorSignal of hidden node h
hiddenErrorSignal(n, m, h, targetClassification) ==
    LET hn == getNode(m, getLayer(n, "HIDDEN"), h)
        s  == outputcellerrorsum(n, m, h, targetClassification, 0,
                                 [sum |-> 0, reads |-> <<>>])
    IN  Mul(s.sum, getActFctDerivative(n, "HIDDEN", m[hn + OffOutput]))

(***************************************************************************)
(* Classifier.                                                             *)
(***************************************************************************)
\* getNetworkClassificationLoop comparing with >= : a later node holding the
\* same output replaces the earlier one
RECURSIVE getNetworkClassificationLoop_ge(_, _, _, _, _)
getNetworkClassificationLoop_ge(m, l, i, maxOut, maxInd) ==
    IF i >= ncount(m, l) THEN maxInd
    ELSE LET on == getNode(m, l, i)
         IN  IF m[on + OffOutput] >= maxOut
             THEN getNetworkClassificationLoop_ge(m, l, i + 1, m[on + OffOutput], i)
             ELSE getNetworkClassificationLoop_ge(m, l, i + 1, maxOut, maxInd)

RECURSIVE getNetworkClassificationLoop(_, _, _, _, _)
getNetworkClassificationLoop(m, l, i, maxOut, maxInd) ==
    IF i >= ncount(m, l) THEN maxInd
    ELSE LET on == getNode(m, l, i)
         IN  IF m[on + OffOutput] > maxOut
             THEN getNetworkClassificationLoop(m, l, i + 1, m[on + OffOutput], i)
             ELSE getNetworkClassificationLoop(m, l, i + 1, maxOut, maxInd)

getNetworkClassification(n, m) ==
    getNetworkClassificationLoop(m, getLayer(n, "OUTPUT"), 0, 0, 0)

(***************************************************************************)
(* Initial states: the network createNetwork returns, for every shape of   *)
(* at most MaxNodes nodes.  The activation types are the defaults or the   *)
(* caller's override of them.                                              *)
(***************************************************************************)
Idle == <<"idle">>

NoClass == -1

\* the vectors of length n over the pixel values 0.0 and 1.0 (main.c:43)
Vectors(n) == [1..n -> {0, Scale}]

Init ==
    \E inpCount \in 1..MaxNodes, hidCount \in 1..MaxNodes, outCount \in 1..MaxNodes,
       hidAct \in ActFctTypes, outAct \in ActFctTypes :
        LET c == createNetwork(inpCount, hidCount, outCount, RandSeed)
        IN  /\ inpCount + hidCount + outCount <= MaxNodes
            /\ nn = [c.nn EXCEPT !.hidLayerActType = hidAct,
                                 !.outLayerActType = outAct]
            /\ arenaSize = c.arenaSize
            /\ mem = c.mem
            /\ bpmem = c.mem
            /\ args = [inpCount |-> inpCount, hidCount |-> hidCount,
                       outCount |-> outCount]
            /\ pc = Idle
            /\ label = 0
            /\ error = 0
            /\ wread = [h |-> -1, w |-> <<>>]
            /\ vec = <<>>
            /\ classification = NoClass
            /\ trace = <<>>
            /\ call = "createNetwork"
            /\ ops = 0
            /\ ffmem = c.mem
            /\ nnptr = "arena"
            /\ fn = "caller"
            /\ at = "call"
            /\ images = [training |-> 0, testing |-> 0]
            /\ imgCount = 0
            /\ errCount = 0
            /\ lbl = 0
            /\ trained = c.mem

(***************************************************************************)
(* The calls.                                                              *)
(***************************************************************************)
\* the effect of feedInput(nn, v) on the state
FeedInputWith(v) ==
    /\ mem' = feedInput(mem, v)
    /\ vec' = v
    /\ trace' = Append(trace, <<"call", "feedInput", v>>)
    /\ call' = "feedInput"
    /\ ops' = ops + 1
    /\ UNCHANGED <<nn, arenaSize, label, error, wread, bpmem, classification,
                   args, ffmem>>

\* feedInput(nn, v) with v->size equal to the input layer's node count, as
\* the callers of main.c guarantee
FeedInput ==
    /\ pc = Idle
    /\ ops < MaxOps
    /\ \E v \in Vectors(ncount(mem, getLayer(nn, "INPUT"))) : FeedInputWith(v)
    /\ pc' = pc
    /\ UNCHANGED mainvars

\* calcLayerPos testing the hidden loop against the output layer's ncount
calcLayerPos_ncount(n, m, ltype, i) ==
    IF i < ncount(m, getLayer(n, "OUTPUT")) THEN <<"calc", ltype, i>>
    ELSE IF ltype = "HIDDEN" /\ 0 < ncount(m, getLayer(n, "OUTPUT"))
         THEN <<"calc", "OUTPUT", 0>>
         ELSE Idle

\* the position at the test of the loop of calcLayer(ltype) with index i
calcLayerPos(n, m, ltype, i) ==
    IF i < ncount(m, getLayer(n, ltype)) THEN <<"calc", ltype, i>>
    ELSE IF ltype = "HIDDEN" /\ 0 < ncount(m, getLayer(n, "OUTPUT"))
         THEN <<"calc", "OUTPUT", 0>>
         ELSE Idle

\* the effect of entering feedForwardNetwork(nn)
FeedForwardNetworkEntry ==
    /\ pc' = calcLayerPos(nn, mem, "HIDDEN", 0)
    /\ ffmem' = mem
    /\ trace' = Append(trace, <<"call", "feedForwardNetwork", 0>>)
    /\ call' = "feedForwardNetwork"
    /\ ops' = ops + 1
    /\ UNCHANGED <<nn, arenaSize, mem, label, error, wread, bpmem, vec,
                   classification, args>>

\* feedForwardNetwork is entered
FeedForwardNetwork ==
    /\ pc = Idle
    /\ ops < MaxOps
    /\ FeedForwardNetworkEntry
    /\ UNCHANGED mainvars

\* calcLayer: calcNodeOutput(nn, ltype, i)
CalcNodeOutput ==
    /\ pc[1] = "calc"
    /\ mem' = calcNodeOutput(nn, mem, pc[2], pc[3])
    /\ pc' = <<"act", pc[2], pc[3]>>
    /\ trace' = Append(trace, pc)
    /\ UNCHANGED <<nn, arenaSize, label, error, wread, bpmem, vec,
                   classification, call, args, ops, ffmem>>
    /\ UNCHANGED mainvars

\* calcLayer: activateNode(nn, ltype, i), then i++ and the loop test
ActivateNode ==
    /\ pc[1] = "act"
    /\ mem' = activateNode(nn, mem, pc[2], pc[3])
    /\ pc' = calcLayerPos(nn, mem', pc[2], pc[3] + 1)
    /\ trace' = Append(trace, pc)
    /\ UNCHANGED <<nn, arenaSize, label, error, wread, bpmem, vec,
                   classification, call, args, ops, ffmem>>
    /\ UNCHANGED mainvars

\* backPropagatePos returning after the output layer
backPropagatePos_return(n, m, ltype, i) ==
    IF i < ncount(m, getLayer(n, ltype)) THEN <<"upd", ltype, i>>
    ELSE Idle

\* the position at the test of the loop of backPropagateOutputLayer
\* (ltype = "OUTPUT") or backPropagateHiddenLayer (ltype = "HIDDEN")
backPropagatePos(n, m, ltype, i) ==
    IF i < ncount(m, getLayer(n, ltype)) THEN <<"upd", ltype, i>>
    ELSE IF ltype = "OUTPUT" /\ 0 < ncount(m, getLayer(n, "HIDDEN"))
         THEN <<"upd", "HIDDEN", 0>>
         ELSE Idle

\* the effect of entering backPropagateNetwork(nn, targetClassification)
BackPropagateNetworkWith(targetClassification) ==
    /\ label' = targetClassification
    /\ trace' = Append(trace, <<"call", "backPropagateNetwork", targetClassification>>)
    /\ pc' = backPropagatePos(nn, mem, "OUTPUT", 0)
    /\ bpmem' = mem
    /\ wread' = [h |-> -1, w |-> <<>>]
    /\ call' = "backPropagateNetwork"
    /\ ops' = ops + 1
    /\ UNCHANGED <<nn, arenaSize, mem, error, vec, classification, args, ffmem>>

\* the labels of the data set: the indices of the output nodes
Labels == 0..(ncount(mem, getLayer(nn, "OUTPUT")) - 1)

\* backPropagateNetwork(nn, targetClassification) is entered
BackPropagateNetwork ==
    /\ pc = Idle
    /\ ops < MaxOps
    /\ \E targetClassification \in Labels :
            BackPropagateNetworkWith(targetClassification)
    /\ UNCHANGED mainvars

\* one iteration of the loop of backPropagateOutputLayer
BackPropagateOutputLayer ==
    /\ pc[1] = "upd" /\ pc[2] = "OUTPUT"
    /\ LET errorSignal == outputErrorSignal(nn, mem, pc[3], label)
       IN  /\ error' = errorSignal
           /\ mem' = updateNodeWeights(nn, mem, "OUTPUT", pc[3], errorSignal)
    /\ pc' = backPropagatePos(nn, mem', "OUTPUT", pc[3] + 1)
    /\ trace' = Append(trace, pc)
    /\ UNCHANGED <<nn, arenaSize, label, wread, bpmem, vec, classification,
                   call, args, ops, ffmem>>
    /\ UNCHANGED mainvars

\* one iteration of the outer loop of backPropagateHiddenLayer
BackPropagateHiddenLayer ==
    /\ pc[1] = "upd" /\ pc[2] = "HIDDEN"
    /\ LET s == outputcellerrorsum(nn, mem, pc[3], label, 0,
                                   [sum |-> 0, reads |-> <<>>])
           e == hiddenErrorSignal(nn, mem, pc[3], label)
       IN  /\ wread' = [h |-> pc[3], w |-> s.reads]
           /\ error' = e
           /\ mem' = updateNodeWeights(nn, mem, "HIDDEN", pc[3], e)
    /\ pc' = backPropagatePos(nn, mem', "HIDDEN", pc[3] + 1)
    /\ trace' = Append(trace, pc)
    /\ UNCHANGED <<nn, arenaSize, label, bpmem, vec, classification,
                   call, args, ops, ffmem>>
    /\ UNCHANGED mainvars

\* the effect of getNetworkClassification(nn)
GetNetworkClassificationCall ==
    /\ classification' = getNetworkClassification(nn, mem)
    /\ trace' = Append(trace, <<"call", "getNetworkClassification", 0>>)
    /\ call' = "getNetworkClassification"
    /\ ops' = ops + 1
    /\ UNCHANGED <<nn, arenaSize, mem, pc, label, error, wread, bpmem, vec,
                   args, ffmem>>

\* getNetworkClassification(nn)
GetNetworkClassification ==
    /\ pc = Idle
    /\ ops < MaxOps
    /\ GetNetworkClassificationCall
    /\ UNCHANGED mainvars

Next ==
    \/ FeedInput
    \/ FeedForwardNetwork
    \/ CalcNodeOutput
    \/ ActivateNode
    \/ BackPropagateNetwork
    \/ BackPropagateOutputLayer
    \/ BackPropagateHiddenLayer
    \/ GetNetworkClassification

Spec == Init /\ [][Next]_vars

(***************************************************************************)
(* The same program with a caller that does not keep feedInput's           *)
(* precondition: the vector may be shorter or longer than the input layer. *)
(* feedInput has no check, so the loop stores v->size values at the        *)
(* input-node stride.  After a vector longer than the input layer the      *)
(* later calls are not followed (pc = <<"overrun">>).                      *)
(***************************************************************************)
FeedInputMismatch ==
    /\ pc = Idle
    /\ ops < MaxOps
    /\ \E size \in 0..(ncount(mem, getLayer(nn, "INPUT")) + MaxExtra) :
        /\ size # ncount(mem, getLayer(nn, "INPUT"))
        /\ \E v \in Vectors(size) : FeedInputWith(v)
        /\ pc' = IF size > ncount(mem, getLayer(nn, "INPUT"))
                 THEN <<"overrun">> ELSE pc
    /\ UNCHANGED mainvars

NextUnchecked ==
    \/ Next
    \/ FeedInputMismatch

SpecUnchecked == Init /\ [][NextUnchecked]_vars

(***************************************************************************)
(* main(): createNetwork, trainNetwork over the training set, testNetwork  *)
(* over the testing set, free.  The images and labels are whatever the     *)
(* MNIST files hold: every vector of pixels 0.0 / 1.0 of the input layer's *)
(* length (getVectorFromImage) and every label.                            *)
(***************************************************************************)
\* the network header before createNetwork has stored anything in it
NoNetwork ==
    [inpNodeSize |-> 0, inpLayerSize |-> 0, hidNodeSize |-> 0,
     hidLayerSize |-> 0, outNodeSize |-> 0, outLayerSize |-> 0,
     learningRate |-> 0, hidLayerActType |-> "SIGMOID",
     outLayerActType |-> "SIGMOID"]

NoMem == [a \in {} |-> 0]

InitMain ==
    \E inpCount \in 1..MaxMainNodes, hidCount \in 1..MaxMainNodes,
       outCount \in 1..MaxMainNodes,
       training \in 1..MaxImages, testing \in 1..MaxImages :
        /\ inpCount + hidCount + outCount <= MaxMainNodes
        /\ training + testing <= MaxImages
        /\ args = [inpCount |-> inpCount, hidCount |-> hidCount,
                   outCount |-> outCount]
        /\ images = [training |-> training, testing |-> testing]
        /\ nn = NoNetwork
        /\ arenaSize = 0
        /\ mem = NoMem
        /\ bpmem = NoMem
        /\ ffmem = NoMem
        /\ trained = NoMem
        /\ nnptr = "unset"
        /\ fn = "main"
        /\ at = "createNetwork"
        /\ pc = Idle
        /\ label = 0
        /\ error = 0
        /\ wread = [h |-> -1, w |-> <<>>]
        /\ vec = <<>>
        /\ classification = NoClass
        /\ trace = <<>>
        /\ call = "main"
        /\ ops = 0
        /\ imgCount = 0
        /\ errCount = 0
        /\ lbl = 0

\* what createNetwork stores through the pointer malloc returned
CreateNetworkStores ==
    LET c == createNetwork(args.inpCount, args.hidCount, args.outCount, RandSeed)
    IN  /\ nn' = c.nn
        /\ arenaSize' = c.arenaSize
        /\ mem' = c.mem
        /\ bpmem' = c.mem
        /\ ffmem' = c.mem
        /\ trained' = c.mem
        /\ call' = "createNetwork"
        /\ UNCHANGED <<pc, label, error, wread, vec, classification, trace,
                       args, ops, images, imgCount, errCount, lbl>>

\* main: nn = createNetwork(...), malloc returning the arena
CreateNetwork ==
    /\ fn = "main" /\ at = "createNetwork"
    /\ nnptr' = "arena"
    /\ CreateNetworkStores
    /\ at' = "trainNetwork"
    /\ fn' = fn

\* the position at the test of the loop of trainNetwork / testNetwork
loopPos(f, i, max) ==
    IF i < max THEN [fn |-> f, at |-> "feedInput"]
    ELSE [fn |-> "main", at |-> IF f = "trainNetwork" THEN "testNetwork" ELSE "free"]

\* main: trainNetwork(nn) is entered
TrainNetwork ==
    /\ fn = "main" /\ at = "trainNetwork"
    /\ imgCount' = 0
    /\ errCount' = 0
    /\ fn' = loopPos("trainNetwork", 0, images.training).fn
    /\ at' = loopPos("trainNetwork", 0, images.training).at
    /\ trace' = <<>>
    /\ UNCHANGED <<nn, arenaSize, mem, pc, label, error, wread, bpmem, vec,
                   classification, call, args, ops, ffmem, nnptr, images,
                   lbl, trained>>

\* trainNetwork: getImage, getLabel, getVectorFromImage, feedInput
TrainFeedInput ==
    /\ fn = "trainNetwork" /\ at = "feedInput" /\ pc = Idle
    /\ \E v \in Vectors(args.inpCount) : FeedInputWith(v)
    /\ lbl' \in Labels
    /\ at' = "feedForwardNetwork"
    /\ UNCHANGED <<pc, nnptr, fn, images, imgCount, errCount, trained>>

\* trainNetwork: feedForwardNetwork
TrainFeedForward ==
    /\ fn = "trainNetwork" /\ at = "feedForwardNetwork" /\ pc = Idle
    /\ FeedForwardNetworkEntry
    /\ at' = "backPropagateNetwork"
    /\ UNCHANGED <<nnptr, fn, images, imgCount, errCount, lbl, trained>>

\* trainNetwork: backPropagateNetwork(nn, lbl)
TrainBackPropagate ==
    /\ fn = "trainNetwork" /\ at = "backPropagateNetwork" /\ pc = Idle
    /\ BackPropagateNetworkWith(lbl)
    /\ at' = "getNetworkClassification"
    /\ UNCHANGED <<nnptr, fn, images, imgCount, errCount, lbl, trained>>

\* trainNetwork: classification = getNetworkClassification(nn)
TrainClassify ==
    /\ fn = "trainNetwork" /\ at = "getNetworkClassification" /\ pc = Idle
    /\ GetNetworkClassificationCall
    /\ at' = "errCount"
    /\ UNCHANGED <<nnptr, fn, images, imgCount, errCount, lbl, trained>>

\* trainNetwork: if (classification!=lbl) errCount++, then imgCount++ and
\* the loop test; trainNetwork returns when the loop ends
TrainCount ==
    /\ fn = "trainNetwork" /\ at = "errCount"
    /\ errCount' = IF classification # lbl THEN errCount + 1 ELSE errCount
    /\ imgCount' = imgCount + 1
    /\ fn' = loopPos("trainNetwork", imgCount + 1, images.training).fn
    /\ at' = loopPos("trainNetwork", imgCount + 1, images.training).at
    /\ trained' = IF imgCount + 1 < images.training THEN trained ELSE mem
    /\ trace' = <<>>
    /\ UNCHANGED <<nn, arenaSize, mem, pc, label, error, wread, bpmem, vec,
                   classification, call, args, ops, ffmem, nnptr, images, lbl>>

\* main: testNetwork(nn) is entered
TestNetwork ==
    /\ fn = "main" /\ at = "testNetwork"
    /\ imgCount' = 0
    /\ errCount' = 0
    /\ fn' = loopPos("testNetwork", 0, images.testing).fn
    /\ at' = loopPos("testNetwork", 0, images.testing).at
    /\ trace' = <<>>
    /\ UNCHANGED <<nn, arenaSize, mem, pc, label, error, wread, bpmem, vec,
                   classification, call, args, ops, ffmem, nnptr, images,
                   lbl, trained>>

\* testNetwork: getImage, getLabel, getVectorFromImage, feedInput
TestFeedInput ==
    /\ fn = "testNetwork" /\ at = "feedInput" /\ pc = Idle
    /\ \E v \in Vectors(args.inpCount) : FeedInputWith(v)
    /\ lbl' \in Labels
    /\ at' = "feedForwardNetwork"
    /\ UNCHANGED <<pc, nnptr, fn, images, imgCount, errCount, trained>>

\* testNetwork: feedForwardNetwork
TestFeedForward ==
    /\ fn = "testNetwork" /\ at = "feedForwardNetwork" /\ pc = Idle
    /\ FeedForwardNetworkEntry
    /\ at' = "getNetworkClassification"
    /\ UNCHANGED <<nnptr, fn, images, imgCount, errCount, lbl, trained>>

\* testNetwork: classification = getNetworkClassification(nn)
TestClassify ==
    /\ fn = "testNetwork" /\ at = "getNetworkClassification" /\ pc = Idle
    /\ GetNetworkClassificationCall
    /\ at' = "errCount"
    /\ UNCHANGED <<nnptr, fn, images, imgCount, errCount, lbl, trained>>

\* testNetwork: if (classification!=lbl) errCount++, then imgCount++ and
\* the loop test; testNetwork returns when the loop ends
TestCount ==
    /\ fn = "testNetwork" /\ at = "errCount"
    /\ errCount' = IF classification # lbl THEN errCount + 1 ELSE errCount
    /\ imgCount' = imgCount + 1
    /\ fn' = loopPos("testNetwork", imgCount + 1, images.testing).fn
    /\ at' = loopPos("testNetwork", imgCount + 1, images.testing).at
    /\ trace' = <<>>
    /\ UNCHANGED <<nn, arenaSize, mem, pc, label, error, wread, bpmem, vec,
                   classification, call, args, ops, ffmem, nnptr, images,
                   lbl, trained>>

\* main: free(nn)
Free ==
    /\ fn = "main" /\ at = "free"
    /\ nnptr' = "freed"
    /\ at' = "return"
    /\ UNCHANGED <<nn, arenaSize, mem, pc, label, error, wread, bpmem, vec,
                   classification, trace, call, args, ops, ffmem, fn, images,
                   imgCount, errCount, lbl, trained>>

NextMain ==
    \/ CreateNetwork
    \/ TrainNetwork
    \/ TrainFeedInput
    \/ TrainFeedForward
    \/ TrainBackPropagate
    \/ TrainClassify
    \/ TrainCount
    \/ TestNetwork
    \/ TestFeedInput
    \/ TestFeedForward
    \/ TestClassify
    \/ TestCount
    \/ Free
    \/ CalcNodeOutput
    \/ ActivateNode
    \/ BackPropagateOutputLayer
    \/ BackPropagateHiddenLayer

SpecMain == InitMain /\ [][NextMain]_vars

(***************************************************************************)
(* main() with a malloc that may return NULL.  createNetwork does not test *)
(* the pointer: its first statement after malloc stores through it.  A     *)
(* store through a null pointer is undefined: the process is killed by the *)
(* store (SIGSEGV), or the stores are performed and createNetwork returns  *)
(* the pointer to main.  What main does with it is not followed.           *)
(***************************************************************************)
CreateNetworkNoMemory ==
    /\ fn = "main" /\ at = "createNetwork"
    /\ nnptr' = "NULL"
    /\ fn' = fn
    /\ \/ /\ at' = "SIGSEGV"
          /\ UNCHANGED <<nn, arenaSize, mem, pc, label, error, wread, bpmem,
                         vec, classification, trace, call, args, ops, ffmem,
                         images, imgCount, errCount, lbl, trained>>
       \/ /\ at' = "undefined"
          /\ CreateNetworkStores

NextAlloc ==
    \/ NextMain
    \/ CreateNetworkNoMemory

SpecAlloc == InitMain /\ [][NextAlloc]_vars

(***************************************************************************)
(* Reference addressing used to state the properties: the node records     *)
(* found by stepping with the node size stored in the network header, as   *)
(* the loops over the previous layer do (sbptr += prevLayerNodeSize).      *)
(***************************************************************************)
storedNodeSize(n, ltype) ==
    CASE ltype = "INPUT"  -> n.inpNodeSize
      [] ltype = "HIDDEN" -> n.hidNodeSize
      [] OTHER            -> n.outNodeSize

nodeAt(n, ltype, i) == getLayer(n, ltype) + OffNodes + (i * storedNodeSize(n, ltype))

prevLayerOf(ltype) == IF ltype = "HIDDEN" THEN "INPUT" ELSE "HIDDEN"

countOf(ltype) ==
    CASE ltype = "INPUT"  -> args.inpCount
      [] ltype = "HIDDEN" -> args.hidCount
      [] OTHER            -> args.outCount

outputOf(m, ltype, i) == m[nodeAt(nn, ltype, i) + OffOutput]

biasOf(m, ltype, i) == m[nodeAt(nn, ltype, i) + OffBias]

weightOf(m, ltype, i, j) == m[WeightAddr(nodeAt(nn, ltype, i), j)]

(***************************************************************************)
(* C1: in one call of backPropagateNetwork, every weight                   *)
(* outputNode[o].weight[h] that backPropagateHiddenLayer multiplies into   *)
(* the error sum of hidden node h has the value it had on entry of the     *)
(* call, before backPropagateOutputLayer's update.                         *)
(***************************************************************************)
C1_HiddenReadsPreUpdateWeights ==
    wread.h # -1 =>
        \A o \in 1..Len(wread.w) : wread.w[o] = weightOf(bpmem, "OUTPUT", o - 1, wread.h)

(***************************************************************************)
(* C2: whenever one output node k holds an output strictly greater than    *)
(* that of every other output node, getNetworkClassification returns k.    *)
(***************************************************************************)
OutIdx == 0..(countOf("OUTPUT") - 1)

StrictMaxAt(m, k) ==
    \A j \in OutIdx \ {k} : outputOf(m, "OUTPUT", k) > outputOf(m, "OUTPUT", j)

C2_StrictMaxIsReturned ==
    call = "getNetworkClassification" =>
        \A k \in OutIdx : StrictMaxAt(mem, k) => classification = k

(***************************************************************************)
(* C3: getNetworkClassification returns 0 when every output is <= 0, and   *)
(* otherwise the lowest index among the nodes holding the maximum output;  *)
(* the result is in 0..outCount-1 and the call changes nothing of the      *)
(* network.                                                                *)
(***************************************************************************)
AllOutputsNonPositive(m) == \A j \in OutIdx : outputOf(m, "OUTPUT", j) <= 0

LowestMaxIndex(m, k) ==
    /\ k \in OutIdx
    /\ \A j \in OutIdx : outputOf(m, "OUTPUT", j) <= outputOf(m, "OUTPUT", k)
    /\ \A j \in OutIdx : j < k => outputOf(m, "OUTPUT", j) < outputOf(m, "OUTPUT", k)

wcountOf(m, ltype, i) == m[nodeAt(nn, ltype, i) + OffWcount]

CallsMade == {trace[i][2] : i \in {j \in 1..Len(trace) : trace[j][1] = "call"}}

C4_ShapeIsImmutable ==
    /\ \A ltype \in LayerTypes : ncount(mem, getLayer(nn, ltype)) = countOf(ltype)
    /\ \A i \in 0..(args.inpCount - 1) : wcountOf(mem, "INPUT", i) = 0
    /\ \A i \in 0..(args.hidCount - 1) : wcountOf(mem, "HIDDEN", i) = args.inpCount
    /\ \A i \in 0..(args.outCount - 1) : wcountOf(mem, "OUTPUT", i) = args.hidCount
    /\ nn.inpNodeSize = SizeofNode
    /\ nn.inpLayerSize = SizeofLayer + (args.inpCount * SizeofNode)
    /\ nn.hidNodeSize = SizeofNode + (args.inpCount * SizeofDouble)
    /\ nn.hidLayerSize = SizeofLayer + (args.hidCount * nn.hidNodeSize)
    /\ nn.outNodeSize = SizeofNode + (args.hidCount * SizeofDouble)
    /\ nn.outLayerSize = SizeofLayer + (args.outCount * nn.outNodeSize)

C4_Witness ==
    /\ pc = Idle
    /\ CallsMade = {"feedForwardNetwork", "backPropagateNetwork"}
    /\ mem # bpmem

(***************************************************************************)
(* C5: the arena has size network header + the three layer sizes; the      *)
(* layers lie at offsets 0, inpLayerSize and inpLayerSize + hidLayerSize   *)
(* of the layer region; getNode(layer, i), with the stride recomputed from *)
(* the first node's wcount, is the record reached by stepping i times with *)
(* the stored node size; the node records are pairwise disjoint and lie    *)
(* inside the arena.                                                       *)
(***************************************************************************)
NodeIds == {<<ltype, i>> \in LayerTypes \X (0..MaxNodes) :
                i < ncount(mem, getLayer(nn, ltype))}

\* the first byte of the record of node id and the first byte after it,
\* its size taken from the header
recordStart(id) == nodeAt(nn, id[1], id[2])

recordEnd(id) == nodeAt(nn, id[1], id[2]) + storedNodeSize(nn, id[1])

C5_ArenaLayout ==
    /\ arenaSize = SizeofNetwork + nn.inpLayerSize + nn.hidLayerSize + nn.outLayerSize
    /\ DOMAIN mem = Words(0, arenaSize - SizeofNetwork)
    /\ getLayer(nn, "INPUT") = 0
    /\ getLayer(nn, "HIDDEN") = nn.inpLayerSize
    /\ getLayer(nn, "OUTPUT") = nn.inpLayerSize + nn.hidLayerSize
    /\ \A id \in NodeIds :
        /\ getNode(mem, getLayer(nn, id[1]), id[2]) = recordStart(id)
        /\ recordStart(id) >= 0
        /\ recordEnd(id) <= arenaSize - SizeofNetwork
        /\ \A ltype \in LayerTypes :
            \/ getLayer(nn, ltype) + SizeofLayer <= recordStart(id)
            \/ recordEnd(id) <= getLayer(nn, ltype)
    /\ \A id1 \in NodeIds : \A id2 \in NodeIds :
        id1 # id2 => (recordEnd(id1) <= recordStart(id2) \/ recordEnd(id2) <= recordStart(id1))

C5_Witness ==
    /\ nn.inpNodeSize < nn.hidNodeSize
    /\ nn.hidNodeSize < nn.outNodeSize
    /\ args.hidCount >= 2
    /\ args.outCount >= 2
    /\ call = "backPropagateNetwork"

(***************************************************************************)
(* C6: after feedInput(nn, v) with v.size equal to the input layer's node  *)
(* count, the output of input node i is v.vals[i] for every i, whatever    *)
(* the input nodes held before.                                            *)
(***************************************************************************)
C6_InputIsCopied ==
    call = "feedInput" =>
        /\ Len(vec) = args.inpCount
        /\ \A i \in 0..(args.inpCount - 1) : outputOf(mem, "INPUT", i) = vec[i + 1]

C6_Witness ==
    /\ call = "feedInput"
    /\ \E j \in 1..(Len(trace) - 1) :
        /\ trace[j][1] = "call" /\ trace[j][2] = "feedInput"
        /\ \A i \in 1..Len(vec) : trace[j][3][i] # vec[i]

(***************************************************************************)
(* C7: feedInput called with a vector whose size differs from the input    *)
(* layer's node count writes no arena location other than the output       *)
(* fields of the input layer's nodes.                                      *)
(***************************************************************************)
InputOutputAddrs ==
    {nodeAt(nn, "INPUT", i) + OffOutput : i \in 0..(args.inpCount - 1)}

C7_MismatchWritesOnlyInputOutputs ==
    [][(call' = "feedInput" /\ ops' = ops + 1 /\ Len(vec') # args.inpCount) =>
          \A a \in DOMAIN mem : a \notin InputOutputAddrs => mem'[a] = mem[a]]_vars

(***************************************************************************)
(* C8: in feedForwardNetwork the nodes are computed and activated in the   *)
(* order hidden 0, 1, ..., then output 0, 1, ..., each node activated      *)
(* right after it is computed; when calcNodeOutput runs for an output      *)
(* node, every hidden output is the activated value of the current pass.   *)
(***************************************************************************)
\* the index in trace of the last call entered
LastCallIdx ==
    CHOOSE j \in 1..Len(trace) :
        /\ trace[j][1] = "call"
        /\ \A k \in (j + 1)..Len(trace) : trace[k][1] # "call"

\* the node steps taken by the running (or last) call
PassEvents == SubSeq(trace, LastCallIdx + 1, Len(trace))

ExpectedPass ==
    [k \in 1..(2 * (args.hidCount + args.outCount)) |->
        LET node  == (k - 1) \div 2
            phase == IF k % 2 = 1 THEN "calc" ELSE "act"
        IN  IF node < args.hidCount THEN <<phase, "HIDDEN", node>>
            ELSE <<phase, "OUTPUT", node - args.hidCount>>]

\* bias + the sum over the first cnt nodes j of the previous layer of
\* previousNode[j].output * node.weights[j]
RECURSIVE weightedSum(_, _, _, _)
weightedSum(m, ltype, i, cnt) ==
    IF cnt = 0 THEN biasOf(m, ltype, i)
    ELSE weightedSum(m, ltype, i, cnt - 1)
         + Mul(outputOf(m, prevLayerOf(ltype), cnt - 1), weightOf(m, ltype, i, cnt - 1))

activated(ltype, x) ==
    LET actFct == IF ltype = "HIDDEN" THEN nn.hidLayerActType ELSE nn.outLayerActType
    IN  IF actFct = "TANH" THEN Tanh(x) ELSE Sigmoid(x)

C8_HiddenBeforeOutput ==
    call = "feedForwardNetwork" =>
        /\ Len(PassEvents) <= Len(ExpectedPass)
        /\ PassEvents = SubSeq(ExpectedPass, 1, Len(PassEvents))
        /\ pc = IF Len(PassEvents) = Len(ExpectedPass) THEN Idle
                ELSE ExpectedPass[Len(PassEvents) + 1]
        /\ (pc[1] = "calc" /\ pc[2] = "OUTPUT") =>
              \A h \in 0..(args.hidCount - 1) :
                  outputOf(mem, "HIDDEN", h)
                      = activated("HIDDEN", weightedSum(mem, "HIDDEN", h, args.inpCount))

C8_Witness ==
    /\ call = "feedForwardNetwork"
    /\ pc = <<"calc", "OUTPUT", 1>>
    /\ args.hidCount >= 2
    /\ \E i \in 1..Len(vec) : vec[i] # 0

(***************************************************************************)
(* C9: calcNodeOutput(nn, ltype, id) sets the node's output to bias + the  *)
(* sum over every node i of the previous layer of                          *)
(* previousNode[i].output * node.weights[i]; the node's previous output    *)
(* does not contribute and nothing else changes.                           *)
(***************************************************************************)
C9_CalcNodeOutput ==
    [][pc[1] = "calc" =>
          LET a == nodeAt(nn, pc[2], pc[3]) + OffOutput
          IN  /\ mem'[a] = weightedSum(mem, pc[2], pc[3], countOf(prevLayerOf(pc[2])))
              /\ \A b \in DOMAIN mem : b # a => mem'[b] = mem[b]
              /\ nn' = nn]_vars

\* calcNodeOutput has run for an output node that held a non-zero output of
\* an earlier pass
C9_Witness ==
    /\ pc[1] = "act" /\ pc[2] = "OUTPUT"
    /\ Cardinality({j \in 1..Len(trace) : trace[j] = <<"calc", pc[2], pc[3]>>}) = 2
    /\ outputOf(mem, pc[2], pc[3]) # biasOf(mem, pc[2], pc[3])

(***************************************************************************)
(* C10: updateNodeWeights(nn, ltype, id, e) adds                           *)
(* learningRate * previousLayerNode[i].output * e to weights[i] of the     *)
(* addressed node for every connection i and learningRate * e to its bias; *)
(* every node output, every other node's weights and bias and the learning *)
(* rate are unchanged.                                                     *)
(***************************************************************************)
C10_UpdateNodeWeights ==
    [][pc[1] = "upd" =>
          LET node == nodeAt(nn, pc[2], pc[3])
              prev == prevLayerOf(pc[2])
              conn == 0..(countOf(prev) - 1)
          IN  /\ \A i \in conn :
                    weightOf(mem', pc[2], pc[3], i)
                        = weightOf(mem, pc[2], pc[3], i)
                          + Mul(Mul(nn.learningRate, outputOf(mem, prev, i)), error')
              /\ biasOf(mem', pc[2], pc[3])
                    = biasOf(mem, pc[2], pc[3]) + Mul(nn.learningRate, error')
              /\ \A b \in DOMAIN mem :
                    (b # node + OffBias /\ \A i \in conn : b # WeightAddr(node, i))
                        => mem'[b] = mem[b]
              /\ nn' = nn]_vars

\* updateNodeWeights has changed two weights of a hidden node by different
\* amounts
C10_Witness ==
    /\ wread.h # -1
    /\ error # 0
    /\ args.inpCount >= 2
    /\ weightOf(mem, "HIDDEN", wread.h, 0) # weightOf(bpmem, "HIDDEN", wread.h, 0)
    /\ weightOf(mem, "HIDDEN", wread.h, 1) = weightOf(bpmem, "HIDDEN", wread.h, 1)

(***************************************************************************)
(* C11: for each image trainNetwork processes, updateNodeWeights runs      *)
(* exactly once for every output node and once for every hidden node,      *)
(* never for an input node, the output nodes first, after the forward pass *)
(* of that image has completed and before the feedInput of the next one.   *)
(***************************************************************************)
ExpectedUpdates ==
    [k \in 1..(args.outCount + args.hidCount) |->
        IF k <= args.outCount THEN <<"upd", "OUTPUT", k - 1>>
        ELSE <<"upd", "HIDDEN", k - 1 - args.outCount>>]

\* the calls and node steps of one iteration of the loop of trainNetwork
ExpectedExample ==
    <<<<"call", "feedInput", vec>>, <<"call", "feedForwardNetwork", 0>>>>
        \o ExpectedPass
        \o <<<<"call", "backPropagateNetwork", lbl>>>>
        \o ExpectedUpdates
        \o <<<<"call", "getNetworkClassification", 0>>>>

C11_UpdatesOncePerExample ==
    fn = "trainNetwork" =>
        /\ Len(trace) <= Len(ExpectedExample)
        /\ trace = SubSeq(ExpectedExample, 1, Len(trace))
        /\ at = "feedInput" => trace = <<>>
        /\ at = "errCount" => trace = ExpectedExample
        /\ pc[1] = "upd" => (call = "backPropagateNetwork" /\ pc[2] # "INPUT")

C11_Witness ==
    /\ fn = "trainNetwork"
    /\ imgCount = 1
    /\ at = "errCount"
    /\ args.hidCount >= 2
    /\ args.outCount >= 2

(***************************************************************************)
(* C12: the calls testNetwork makes for an image (feedInput with a vector  *)
(* of the input layer's length, feedForwardNetwork,                        *)
(* getNetworkClassification) leave every weight, every bias, the learning  *)
(* rate and both activation types as they are: throughout testNetwork the  *)
(* trainable parameters equal their values at the end of training.         *)
(***************************************************************************)
\* the addresses of the bias of every node and of every weight
ParamAddrs ==
    {nodeAt(nn, id[1], id[2]) + OffBias : id \in NodeIds}
        \cup UNION {{WeightAddr(nodeAt(nn, id[1], id[2]), j) :
                        j \in 0..(countOf(prevLayerOf(id[1])) - 1)} :
                    id \in {x \in NodeIds : x[1] # "INPUT"}}

C12_TestingChangesNoParameter ==
    [][fn = "testNetwork" =>
          /\ nn'.learningRate = nn.learningRate
          /\ nn'.hidLayerActType = nn.hidLayerActType
          /\ nn'.outLayerActType = nn.outLayerActType
          /\ \A a \in ParamAddrs : mem'[a] = mem[a] /\ mem'[a] = trained[a]]_vars

C12_Witness ==
    /\ fn = "testNetwork"
    /\ imgCount >= 1
    /\ at = "errCount"
    /\ \E a \in DOMAIN mem : mem[a] # trained[a]
    /\ \E a \in ParamAddrs : trained[a] # createNetwork(args.inpCount, args.hidCount,
                                                        args.outCount, RandSeed).mem[a]

(***************************************************************************)
(* C13: when malloc returns no memory to createNetwork, the process        *)
(* aborts: createNetwork stores neither the size fields nor the layers     *)
(* through the pointer and does not return to main.                        *)
(***************************************************************************)
C13_AllocationFailureAborts ==
    nnptr = "NULL" =>
        /\ nn = NoNetwork
        /\ mem = NoMem
        /\ call # "createNetwork"

(***************************************************************************)
(* C14: with the weights, the biases and the input nodes' outputs fixed,   *)
(* feedForwardNetwork is idempotent and does not depend on the outputs the *)
(* hidden and output nodes held before: a second run in a row leaves every *)
(* output as the first run left it, and networks that differ only in the   *)
(* prior outputs of hidden and output nodes end with identical memory.     *)
(***************************************************************************)
\* the outputs a hidden or output node may hold from earlier passes
StaleOutputs == {-Scale, Scale}

\* the addresses of the output fields of the hidden and output nodes
ComputedOutputAddrs ==
    {nodeAt(nn, "HIDDEN", i) + OffOutput : i \in 0..(countOf("HIDDEN") - 1)}
        \cup {nodeAt(nn, "OUTPUT", i) + OffOutput : i \in 0..(countOf("OUTPUT") - 1)}

\* memory m with the outputs of the hidden and output nodes replaced by s
withOutputs(m, s) ==
    [a \in DOMAIN m |-> IF a \in ComputedOutputAddrs THEN s[a] ELSE m[a]]

CallEvents == SelectSeq(trace, LAMBDA e : e[1] = "call")

SecondRunInARow ==
    /\ Len(CallEvents) >= 2
    /\ CallEvents[Len(CallEvents)][2] = "feedForwardNetwork"
    /\ CallEvents[Len(CallEvents) - 1][2] = "feedForwardNetwork"

C14_FeedForwardIdempotent ==
    (call = "feedForwardNetwork" /\ pc = Idle) =>
        /\ mem = feedForwardNetwork(nn, ffmem)
        /\ feedForwardNetwork(nn, mem) = mem
        /\ SecondRunInARow => mem = ffmem
        /\ \A s \in [ComputedOutputAddrs -> StaleOutputs] :
               feedForwardNetwork(nn, withOutputs(ffmem, s)) = mem

C14_Witness ==
    /\ call = "feedForwardNetwork"
    /\ pc = Idle
    /\ SecondRunInARow
    /\ args.hidCount >= 2
    /\ \E a \in ComputedOutputAddrs : mem[a] \notin StaleOutputs

(***************************************************************************)
(* C15: backPropagateNetwork changes the output field of no node, so the   *)
(* classification trainNetwork gets after backPropagateNetwork is the one  *)
(* getNetworkClassification would have returned right after                *)
(* feedForwardNetwork, from the outputs computed with the weights before   *)
(* the update.                                                             *)
(***************************************************************************)
C15_ClassificationOfPreUpdatePass ==
    /\ call = "backPropagateNetwork" =>
          \A id \in NodeIds : outputOf(mem, id[1], id[2]) = outputOf(bpmem, id[1], id[2])
    /\ (fn = "trainNetwork" /\ at = "errCount") =>
          /\ bpmem = feedForwardNetwork(nn, ffmem)
          /\ classification = getNetworkClassification(nn, bpmem)

C15_Witness ==
    /\ fn = "trainNetwork"
    /\ at = "errCount"
    /\ classification >= 1
    /\ getNetworkClassification(nn, feedForwardNetwork(nn, mem)) # classification

====
